---- MODULE Spec2Model ----
(***************************************************************************)
(* Model of web-src/app.js: the page loader of the examples site.          *)
(*                                                                         *)
(* The script runs once per page load (top to bottom, synchronously) and   *)
(* leaves two promise chains behind: the module chain (dynamic import,     *)
(* call of the default export, catch -> alert) and the source chain        *)
(* (fetch, res.text(), write into #code, highlightAll).  The host (the     *)
(* browser) settles the pending operations one task at a time; the         *)
(* reactions registered on a promise run in the microtask checkpoint of    *)
(* the task that settles it, so each settlement and its callbacks is one   *)
(* action.  window.location.reload() tears the document down: the DOM is   *)
(* rebuilt from the static HTML and the script runs again from its top.    *)
(***************************************************************************)
EXTENDS Naturals, Sequences, FiniteSets

VARIABLES
    url,            \* the page URL's fragment: [present, fragment]
    html,           \* the static document: [code, anchors]
    script,         \* "loading" (not yet run), "ready" (ran to its end), "aborted" (threw)
    example,        \* const example (line 3); "" before the script ran
    pending,        \* operations in flight at the host, each with the path it was issued for
    mod,            \* the module chain of this page: [import, call, late, err]
    src,            \* the source chain of this page: [fetch, text, body]
    alerts,         \* messages of the window.alert dialogs shown by this page
    called,         \* module paths whose default export this page invoked
    codeText,       \* textContent of the element #code
    highlighted,    \* textContent of #code as seen by each highlightAll() call
    active,         \* hrefs of the anchors that carry the class "active"
    onhashchange,   \* whether window.onhashchange is set
    hashEvents,     \* hashchange events queued and not yet dispatched
    prev,           \* the last source display a torn-down page had completed
    lastReload      \* "none" before any reload; else whether the last reload found
                    \* operations in flight ("inflight") or not ("idle")

vars == <<url, html, script, example, pending, mod, src, alerts, called,
          codeText, highlighted, active, onhashchange, hashEvents, prev, lastReload>>

----------------------------------------------------------------------------
(* Bounds of the model *)

\* longest fragment built from Alphabet
FragLen == 1

\* most hashchange events queued at once
MaxHashEvents == 1

Alphabet == {"a", "%"}

RECURSIVE Strings(_)
Strings(n) ==
    IF n = 0 THEN {""}
    ELSE LET S == Strings(n - 1) IN S \cup {s \o c : s \in S, c \in Alphabet}

Fragments == Strings(FragLen) \cup {"cells"}

NoFragment == [present |-> FALSE, fragment |-> ""]

Urls == {[present |-> TRUE, fragment |-> f] : f \in Fragments} \cup {NoFragment}

----------------------------------------------------------------------------
(* Values thrown and rejected with *)

NoErr == [kind |-> "none", name |-> "", message |-> ""]

Errs ==
    { [kind |-> "Error", name |-> "TypeError", message |-> "load failed"],
      [kind |-> "Error", name |-> "Error", message |-> ""],
      [kind |-> "string", name |-> "", message |-> "boom"] }

NotAFunction ==
    [kind |-> "Error", name |-> "TypeError", message |-> "module.default is not a function"]

\* The string form of a value, as window.alert(err) takes it: a string is
\* itself; an Error is "name: message", or the one that is not empty.
StringForm(err) ==
    IF err.kind = "string" THEN err.message
    ELSE IF err.message = "" THEN err.name
    ELSE IF err.name = "" THEN err.message
    ELSE err.name \o ": " \o err.message

----------------------------------------------------------------------------
(* Line 3: the selector *)

\* window.location.hash: "" for an absent or empty fragment, else "#fragment"
LocationHash(u) ==
    IF ~u.present \/ u.fragment = "" THEN "" ELSE "#" \o u.fragment

\* String.prototype.substr(1)
Substr1(s) == IF Len(s) <= 1 THEN "" ELSE SubSeq(s, 2, Len(s))

ResolveSelectorNoDefault(hash) == Substr1(hash)

\* window.location.hash.substr(1) || "cells"
ResolveSelector(hash) ==
    LET s == Substr1(hash) IN IF s = "" THEN "cells" ELSE s

\* `./wasm/examples/${example}.js`
ModulePath(sel) == "./wasm/examples/" \o sel \o ".js"

\* `./sources/${example}.rs`
SourcePath(sel) == "./sources/" \o sel \o ".rs"

Selectors == {ResolveSelector(LocationHash(u)) : u \in Urls}

----------------------------------------------------------------------------
(* The document and the hosts *)

AllHrefs == {"#" \o s : s \in Selectors}

\* the navigation bars a page may have: a link for every selector, or links
\* for some only
NavChoices == {AllHrefs, {"#a"}}

InitialContents == {"", "loading"}

Htmls == [code : InitialContents, anchors : NavChoices]

\* what the source host may answer for a path
Served(path) == {"// " \o path, "fn main() {} // " \o path}

\* the default export of a loaded module: returns a plain value, returns a
\* promise, throws, or is missing
Modules ==
    {[default |-> d, err |-> NoErr] : d \in {"returns", "promise", "missing"}}
        \cup {[default |-> "throws", err |-> e] : e \in Errs}

ImportOp(path) == [op |-> "import", path |-> path, chained |-> FALSE]
FetchOp(path) == [op |-> "fetch", path |-> path, chained |-> FALSE]
TextOp(path) == [op |-> "text", path |-> path, chained |-> FALSE]
ReturnedOp(path, chained) == [op |-> "returned", path |-> path, chained |-> chained]

ModIdle == [import |-> "none", call |-> "none", late |-> "none", err |-> NoErr]
SrcIdle == [fetch |-> "none", text |-> "none", body |-> ""]
NoPrev == [path |-> "", body |-> "", final |-> ""]

\* document.querySelector(`a[href="#${example}"]`): the matching anchors
\* (none: the call returns null)
QueryAnchor(anchors, sel) == {h \in anchors : h = "#" \o sel}

----------------------------------------------------------------------------
(* The callbacks *)

\* module.default(): what the call does.  A missing default export makes the
\* call expression itself throw a TypeError; nothing is invoked.
CallDefault(m) ==
    [ invoked |-> m.default # "missing",
      threw   |-> m.default \in {"throws", "missing"},
      err     |-> IF m.default = "missing" THEN NotAFunction ELSE m.err,
      ret     |-> IF m.default = "promise" THEN "promise" ELSE "undefined" ]

ThenValueReturnsCall(ret) == ret

\* Lines 5-7: the then-callback has a block body with no return statement,
\* so it returns undefined whatever module.default() returned.
ThenValue(ret) == "undefined"

CatchAlertMessage(shown, err) == Append(shown, err.message)

\* Lines 7-10: .catch(err => { window.alert(err) })
CatchAlert(shown, err) == Append(shown, StringForm(err))

SourceRejectedAlert(shown, err) == Append(shown, StringForm(err))

\* Lines 14-19: the source chain ends without a catch; a rejection is left
\* unhandled and shows nothing.
SourceRejected(shown, err) == shown

WriteTextAppend(old, text) == old \o text

\* Line 17: document.querySelector('#code').textContent = text
WriteText(old, text) == text

HighlightFirst(before, after) == before

\* Lines 17-18: highlightAll() is called after the assignment, so it sees
\* the text content as written.
HighlightSees(before, after) == after

\* highlightAll() of ./3rd-party/speed-highlight.js (line 1): the highlighting
\* pass wraps the code in coloured spans; the text of #code stays what it was.
HighlightAll(text) == text

KeepInFlight(ops) == ops

\* Line 22: window.location.reload() unloads the document; the operations its
\* realm was waiting for are gone with it.
Teardown(ops) == {}

----------------------------------------------------------------------------
Init ==
    /\ url \in Urls
    /\ html \in Htmls
    /\ script = "loading"
    /\ example = ""
    /\ pending = {}
    /\ mod = ModIdle
    /\ src = SrcIdle
    /\ alerts = <<>>
    /\ called = <<>>
    /\ codeText = html.code
    /\ highlighted = <<>>
    /\ active = {}
    /\ onhashchange = FALSE
    /\ hashEvents = 0
    /\ prev = NoPrev
    /\ lastReload = "none"

\* Lines 3-23, the script's synchronous run.  Line 12 throws a TypeError when
\* querySelector returns null: the lines after it do not run.
RunScript ==
    /\ script = "loading"
    /\ LET sel == ResolveSelector(LocationHash(url))
           found == QueryAnchor(html.anchors, sel)
       IN /\ example' = sel
          /\ mod' = [ModIdle EXCEPT !.import = "pending"]
          /\ IF found # {}
             THEN /\ active' = active \cup found
                  /\ pending' = pending \cup {ImportOp(ModulePath(sel)), FetchOp(SourcePath(sel))}
                  /\ src' = [SrcIdle EXCEPT !.fetch = "pending"]
                  /\ onhashchange' = TRUE
                  /\ script' = "ready"
             ELSE /\ active' = active
                  /\ pending' = pending \cup {ImportOp(ModulePath(sel))}
                  /\ src' = SrcIdle
                  /\ onhashchange' = onhashchange
                  /\ script' = "aborted"
    /\ UNCHANGED <<url, html, alerts, called, codeText, highlighted, hashEvents, prev, lastReload>>

\* The dynamic import of line 5 is fulfilled with module namespace m: the
\* then-callback calls m.default(); what it throws goes to the catch.
ImportFulfilled(p, m) ==
    /\ p \in pending
    /\ p.op = "import"
    /\ LET c == CallDefault(m)
           late == ~c.threw /\ c.ret = "promise"
       IN /\ called' = IF c.invoked THEN Append(called, p.path) ELSE called
          /\ mod' = [mod EXCEPT !.import = "fulfilled",
                                !.call = IF c.threw THEN "threw" ELSE "returned",
                                !.late = IF late THEN "pending" ELSE "none",
                                !.err = IF c.threw THEN c.err ELSE NoErr]
          /\ alerts' = IF c.threw THEN CatchAlert(alerts, c.err) ELSE alerts
          /\ pending' = (pending \ {p}) \cup
                 (IF late
                  THEN {ReturnedOp(p.path, ThenValue(c.ret) = "promise")}
                  ELSE {})
    /\ UNCHANGED <<url, html, script, example, src, codeText, highlighted, active,
                   onhashchange, hashEvents, prev, lastReload>>

\* The dynamic import is rejected with e: the then-callback is skipped, the
\* catch runs.
ImportRejected(p, e) ==
    /\ p \in pending
    /\ p.op = "import"
    /\ mod' = [mod EXCEPT !.import = "rejected", !.err = e]
    /\ alerts' = CatchAlert(alerts, e)
    /\ pending' = pending \ {p}
    /\ UNCHANGED <<url, html, script, example, src, called, codeText, highlighted,
                   active, onhashchange, hashEvents, prev, lastReload>>

\* A promise the default export returned is rejected later.  The chain of
\* lines 5-10 hears of it only if the then-callback had returned it.
ReturnedRejected(p, e) ==
    /\ p \in pending
    /\ p.op = "returned"
    /\ mod' = [mod EXCEPT !.late = "rejected"]
    /\ alerts' = IF p.chained THEN CatchAlert(alerts, e) ELSE alerts
    /\ pending' = pending \ {p}
    /\ UNCHANGED <<url, html, script, example, src, called, codeText, highlighted,
                   active, onhashchange, hashEvents, prev, lastReload>>

ReturnedFulfilled(p) ==
    /\ p \in pending
    /\ p.op = "returned"
    /\ mod' = [mod EXCEPT !.late = "fulfilled"]
    /\ pending' = pending \ {p}
    /\ UNCHANGED <<url, html, script, example, src, alerts, called, codeText,
                   highlighted, active, onhashchange, hashEvents, prev, lastReload>>

\* Lines 14-15: the fetch is fulfilled; res => res.text() starts the read.
FetchFulfilled(p) ==
    /\ p \in pending
    /\ p.op = "fetch"
    /\ src' = [src EXCEPT !.fetch = "fulfilled", !.text = "pending"]
    /\ pending' = (pending \ {p}) \cup {TextOp(p.path)}
    /\ UNCHANGED <<url, html, script, example, mod, alerts, called, codeText,
                   highlighted, active, onhashchange, hashEvents, prev, lastReload>>

FetchRejected(p, e) ==
    /\ p \in pending
    /\ p.op = "fetch"
    /\ src' = [src EXCEPT !.fetch = "rejected"]
    /\ alerts' = SourceRejected(alerts, e)
    /\ pending' = pending \ {p}
    /\ UNCHANGED <<url, html, script, example, mod, called, codeText, highlighted,
                   active, onhashchange, hashEvents, prev, lastReload>>

\* Lines 16-19: the body was read as text t; write it, then highlight.
TextFulfilled(p, t) ==
    /\ p \in pending
    /\ p.op = "text"
    /\ t \in Served(p.path)
    /\ LET written == WriteText(codeText, t)
       IN /\ highlighted' = Append(highlighted, HighlightSees(codeText, written))
          /\ codeText' = HighlightAll(written)
    /\ src' = [src EXCEPT !.text = "fulfilled", !.body = t]
    /\ pending' = pending \ {p}
    /\ UNCHANGED <<url, html, script, example, mod, alerts, called, active,
                   onhashchange, hashEvents, prev, lastReload>>

TextRejected(p, e) ==
    /\ p \in pending
    /\ p.op = "text"
    /\ src' = [src EXCEPT !.text = "rejected"]
    /\ alerts' = SourceRejected(alerts, e)
    /\ pending' = pending \ {p}
    /\ UNCHANGED <<url, html, script, example, mod, called, codeText, highlighted,
                   active, onhashchange, hashEvents, prev, lastReload>>

\* The user follows a link or edits the address: the fragment changes and the
\* browser queues a hashchange event.
ChangeFragment(u) ==
    /\ u \in Urls
    /\ u # url
    /\ hashEvents < MaxHashEvents
    /\ url' = u
    /\ hashEvents' = hashEvents + 1
    /\ UNCHANGED <<html, script, example, pending, mod, src, alerts, called, codeText,
                   highlighted, active, onhashchange, prev, lastReload>>

\* Lines 21-23: the hashchange event reaches the handler, which reloads.  The
\* document is fetched and built again (the site may have been redeployed in
\* between); its script has yet to run.
HashChangeReload ==
    /\ hashEvents > 0
    /\ onhashchange
    /\ script' = "loading"
    /\ example' = ""
    /\ pending' = Teardown(pending)
    /\ mod' = ModIdle
    /\ src' = SrcIdle
    /\ alerts' = <<>>
    /\ called' = <<>>
    /\ html' \in Htmls
    /\ codeText' = html'.code
    /\ highlighted' = <<>>
    /\ active' = {}
    /\ onhashchange' = FALSE
    /\ hashEvents' = 0
    /\ prev' = IF src.text = "fulfilled"
               THEN [path |-> SourcePath(example), body |-> src.body, final |-> codeText]
               ELSE prev
    /\ lastReload' = IF pending # {} THEN "inflight" ELSE "idle"
    /\ UNCHANGED url

\* The hashchange event is dispatched while window.onhashchange is not set
\* (the script has not run yet, or stopped before line 21): nothing happens.
HashChangeIgnored ==
    /\ hashEvents > 0
    /\ ~onhashchange
    /\ hashEvents' = hashEvents - 1
    /\ UNCHANGED <<url, html, script, example, pending, mod, src, alerts, called,
                   codeText, highlighted, active, onhashchange, prev, lastReload>>

Next ==
    \/ RunScript
    \/ \E p \in pending, m \in Modules : ImportFulfilled(p, m)
    \/ \E p \in pending, e \in Errs : ImportRejected(p, e)
    \/ \E p \in pending, e \in Errs : ReturnedRejected(p, e)
    \/ \E p \in pending : ReturnedFulfilled(p)
    \/ \E p \in pending : FetchFulfilled(p)
    \/ \E p \in pending, e \in Errs : FetchRejected(p, e)
    \/ \E p \in pending : \E t \in Served(p.path) : TextFulfilled(p, t)
    \/ \E p \in pending, e \in Errs : TextRejected(p, e)
    \/ \E u \in Urls : ChangeFragment(u)
    \/ HashChangeReload
    \/ HashChangeIgnored

Spec == Init /\ [][Next]_vars

----------------------------------------------------------------------------
(* What the page shows once nothing is in flight, from the outcomes alone *)

ModuleFailed == mod.import = "rejected" \/ mod.call = "threw"

SourceFailed == src.fetch = "rejected" \/ src.text = "rejected"

SourceShown == src.text = "fulfilled"

\* the selector a URL stands for, written out
SelectorOf(u) == IF u.present /\ u.fragment # "" THEN u.fragment ELSE "cells"

\* the step in which the script of a freshly loaded document runs
ScriptRuns == script = "loading" /\ script' # "loading"

\* the step in which a queued hashchange event is dispatched
HashChangeFires == hashEvents' < hashEvents

----------------------------------------------------------------------------
(* C1 *)

----------------------------------------------------------------------------
(* C2 *)

\* C2: a page never shows more than one alert, and once its import was
\* rejected with E, or its default export threw E, it has shown exactly one
\* alert, whose message is the string form of E, whatever the source chain did.
C2_FailureAlertsOnce ==
    /\ Len(alerts) <= 1
    /\ ModuleFailed => alerts = <<StringForm(mod.err)>>

\* the import was rejected with a TypeError and the fetch failed as well
C2_Witness ==
    /\ mod.import = "rejected"
    /\ mod.err.name = "TypeError"
    /\ src.fetch = "rejected"
    /\ alerts = <<"TypeError: load failed">>

----------------------------------------------------------------------------
(* C3 *)

\* C3: a page whose import was fulfilled and whose call of the default
\* export returned has shown no alert, also after a promise the call
\* returned was rejected and after the source chain failed.
C3_SuccessNoAlert ==
    (mod.import = "fulfilled" /\ mod.call = "returned") => alerts = <<>>

\* the returned promise was rejected, the text read failed, nothing shown
C3_Witness ==
    /\ mod.import = "fulfilled"
    /\ mod.call = "returned"
    /\ mod.late = "rejected"
    /\ src.text = "rejected"
    /\ alerts = <<>>

----------------------------------------------------------------------------
(* C4 *)

\* C4: once the script of a page has run, every dispatch of a hashchange
\* event reloads the page; and when the script of a reloaded page runs, its
\* selector is that of the URL's fragment as it is then, and the import and
\* the fetch for that selector are both in flight.
C4_NavigationReset ==
    [][ /\ (script # "loading" /\ HashChangeFires) => script' = "loading"
        /\ (lastReload # "none" /\ ScriptRuns) =>
              /\ example' = SelectorOf(url)
              /\ ImportOp(ModulePath(SelectorOf(url))) \in pending'
              /\ FetchOp(SourcePath(SelectorOf(url))) \in pending'
      ]_vars

----------------------------------------------------------------------------
(* C5 *)

\* C5: when the document has no anchor with href "#<selector>", the script
\* still runs to its end: no anchor is marked, the source fetch is requested
\* and the hashchange handler is installed.
C5_MissingAnchorSilent ==
    (script # "loading" /\ QueryAnchor(html.anchors, example) = {}) =>
        /\ script = "ready"
        /\ active = {}
        /\ src.fetch # "none"
        /\ onhashchange

----------------------------------------------------------------------------
(* C6 *)

\* C6: on a page whose fetch was rejected or whose text read failed, #code
\* still has the text the document came with, highlightAll was never called,
\* and an alert is on show only if the module chain failed (then that one).
C6_SourceFailureSilent ==
    SourceFailed =>
        /\ codeText = html.code
        /\ highlighted = <<>>
        /\ Len(alerts) = (IF ModuleFailed THEN 1 ELSE 0)

\* the text read failed while the module ran fine
C6_Witness ==
    /\ src.fetch = "fulfilled"
    /\ src.text = "rejected"
    /\ mod.call = "returned"
    /\ html.code = "loading"
    /\ codeText = "loading"
    /\ alerts = <<>>

----------------------------------------------------------------------------
(* C7 *)

\* C7: when a page has displayed the text fetched for its selector, and an
\* earlier page had displayed the same text for the same selector, both end
\* with the same text content of #code, the fetched text, whatever #code
\* held before.
C7_DisplayIdempotent ==
    (SourceShown /\ prev.path = SourcePath(example) /\ prev.body = src.body) =>
        /\ codeText = prev.final
        /\ codeText = src.body

\* the second display of the same text, into a #code that was not empty
C7_Witness ==
    /\ SourceShown
    /\ prev.path = SourcePath(example)
    /\ prev.body = src.body
    /\ html.code = "loading"
    /\ codeText = "// ./sources/a.rs"

----------------------------------------------------------------------------
(* C8 *)

\* C8: highlightAll is called at most once per page and only when the text
\* read has succeeded; what it finds in #code is the fetched text, one of
\* the texts served for the page's source path, whatever #code held before;
\* and once the read has succeeded it has been called exactly once.
C8_WriteThenHighlight ==
    /\ Len(highlighted) <= 1
    /\ \A i \in 1..Len(highlighted) : SourceShown /\ highlighted[i] = src.body
    /\ SourceShown =>
          /\ src.body \in Served(SourcePath(example))
          /\ highlighted = <<src.body>>

\* the text replaced the document's own and was highlighted
C8_Witness ==
    /\ SourceShown
    /\ html.code = "loading"
    /\ highlighted = <<"fn main() {} // ./sources/cells.rs">>

----------------------------------------------------------------------------
(* C9 *)

\* C9: a reload leaves nothing of the old page in flight: a freshly loaded
\* document has no pending operation, no alert, no call, no highlighting
\* and its own text in #code; every pending operation, every default export
\* called and every text written into #code belongs to the selector of the
\* page as it is now, and an alert on show comes from this page's own
\* module chain.
C9_ReloadAbandons ==
    /\ script = "loading" =>
          /\ pending = {}
          /\ alerts = <<>>
          /\ called = <<>>
          /\ highlighted = <<>>
          /\ codeText = html.code
    /\ script # "loading" =>
          \A p \in pending : p.path \in {ModulePath(example), SourcePath(example)}
    /\ \A i \in 1..Len(called) : called[i] = ModulePath(example)
    /\ \A i \in 1..Len(highlighted) : highlighted[i] \in Served(SourcePath(example))
    /\ alerts # <<>> => ModuleFailed

\* a reload found work in flight for another selector, and the new page has
\* since run its module and shown its source
C9_Witness ==
    /\ lastReload = "inflight"
    /\ example = "a"
    /\ called = <<"./wasm/examples/a.js">>
    /\ highlighted = <<"// ./sources/a.rs">>
    /\ pending = {}

----------------------------------------------------------------------------
(* C10 *)

ExpectedAlerts == IF ModuleFailed THEN <<StringForm(mod.err)>> ELSE <<>>

ExpectedText == IF SourceShown THEN src.body ELSE html.code

ExpectedHighlights == IF SourceShown THEN <<src.body>> ELSE <<>>

\* Whatever the order in which the two chains ran, once nothing is in
\* flight the page is what the outcomes say.
ChainsCommute ==
    (script # "loading" /\ pending = {}) =>
        /\ alerts = ExpectedAlerts
        /\ codeText = ExpectedText
        /\ highlighted = ExpectedHighlights

\* C10: once the script has run both chains have been started, and once
\* nothing is in flight the alerts, the text of #code and the highlighting
\* are those the outcomes of import, call, fetch and read determine, in
\* whatever order the chains completed.
C10_ChainsIndependent ==
    /\ script # "loading" => (mod.import # "none" /\ src.fetch # "none")
    /\ ChainsCommute

\* the module chain is done while the fetch is still pending
ModuleFirst == mod.import # "pending" /\ mod.import # "none" /\ src.fetch = "pending"

\* the source chain is done while the import is still pending
SourceFirst == src.text \in {"fulfilled", "rejected"} /\ mod.import = "pending"
====
